---- MODULE Spec2Model ----
(***************************************************************************)
(* Board/game-state model of Undercooked (src/Game.cpp): the 5x5 board,    *)
(* the chef, the collected-ingredient flags, the mesh assignment, and the  *)
(* event handler that moves the chef, picks up food and wins a round.      *)
(***************************************************************************)
EXTENDS Integers, Sequences, FiniteSets, TLC

VARIABLES
    board,          \* board[<<x, y>>]: the cell codes, board[x][y] in the source
    chef,           \* chef.x, chef.y
    win,            \* win.PB, win.J, win.bread (0 or 1)
    board_meshes,   \* board_meshes[ind]: mesh assigned to cell ind, or "null"
    evt,            \* the event handle_event processed last
    ret,            \* what handle_event returned for it
    gf,             \* the locals of the last getFood call (x, y, item) and its branch
    counterSpace,   \* spawnFood's argument, for the stand-alone spawnFood calls
    spawned,        \* outcome of the stand-alone spawnFood call
    picked          \* the squares getFood emptied since the last initBoard

vars == <<board, chef, win, board_meshes, evt, ret, gf, counterSpace, spawned, picked>>

----------------------------------------------------------------------------
(* Bounds of the model *)

\* rand() is modelled as returning one of NumRand sample values (see RandSample).
NumRand == 3

\* The largest value of rand() in the stand-alone spawnFood calls.
RandMax == 11

----------------------------------------------------------------------------
(* Program constants *)

\* board_size.x, board_size.y
BoardSize == 5

\* the cell codes
EMPTY == 0
CHEF == 1
JELLY == 2
PEANUTBUTTER == 3
BREAD == 4
GOAL == 5
SIDE == 6

Coords == 0 .. (BoardSize - 1)
Cells == Coords \X Coords

\* The values rand() returns in the model: multiples of 7, so that the draws
\* rand()%12, rand()%11, rand()%10, rand()%9 reach cells on all four sides.
RandSample == { 7 * k : k \in 0 .. (NumRand - 1) }

\* One value per rand() call of spawnFood's loop.
RandTuples == [1 .. 4 -> RandSample]

----------------------------------------------------------------------------
(* Game::initBoard *)

\* The twelve side squares handed to spawnFood, in push_back order.
fillIn ==
    << <<0, 1>>, <<0, 2>>, <<0, 3>>, <<1, 0>>, <<2, 0>>, <<3, 0>>,
       <<4, 1>>, <<4, 2>>, <<4, 3>>, <<1, 4>>, <<2, 4>>, <<3, 4>> >>

\* The side-square test of the board initialisation loop.
IsSideSquare(x, y) ==
    \/ (y = 0 /\ (x > 0 /\ x < 4))
    \/ (y = 4 /\ (x > 0 /\ x < 4))
    \/ (x = 0 /\ (y > 0 /\ y < 4))
    \/ (x = 4 /\ (y > 0 /\ y < 4))

\* The board after the initialisation loop, before spawnFood.
ClearedBoard ==
    [c \in Cells |->
        IF c[1] = 2 /\ c[2] = 2 THEN CHEF
        ELSE IF IsSideSquare(c[1], c[2]) THEN SIDE
        ELSE EMPTY]

\* The cell code placed by iteration i of spawnFood's loop.
SpawnItem(i) ==
    IF i = 0 THEN PEANUTBUTTER
    ELSE IF i = 1 THEN JELLY
    ELSE IF i = 2 THEN BREAD
    ELSE GOAL

\* counterSpace.erase(counterSpace.begin() + ind), ind counted from 0.
EraseKeepsAll(cs, ind) == cs

Erase(cs, ind) ==
    [k \in 1 .. (Len(cs) - 1) |-> IF k <= ind THEN cs[k] ELSE cs[k + 1]]

\* Game::spawnFood from iteration i on: b is the board, cs the vector, len
\* the local len, rands the results of the rand() calls.  rand() % 0 is
\* undefined; the loop stops there with ub set and the cells placed so far.
RECURSIVE spawnLoop(_, _, _, _, _)
spawnLoop(b, cs, len, i, rands) ==
    IF i = 4 THEN [board |-> b, ub |-> FALSE]
    ELSE IF len = 0 THEN [board |-> b, ub |-> TRUE]
    ELSE LET ind == rands[i + 1] % len
             cell == cs[ind + 1]
         IN  spawnLoop([b EXCEPT ![cell] = SpawnItem(i)],
                       Erase(cs, ind), len - 1, i + 1, rands)

spawnFood(b, cs, rands) == spawnLoop(b, cs, Len(cs), 0, rands)

\* The mesh initBoard assigns, with the goal's mesh forgotten.
MeshOfNoGoal(val) ==
    IF val = 1 THEN "doll"
    ELSE IF val = 2 THEN "j"
    ELSE IF val = 3 THEN "pb"
    ELSE IF val = 4 THEN "bread"
    ELSE "null"

\* The mesh initBoard assigns to a cell holding val.
MeshOf(val) ==
    IF val = 1 THEN "doll"
    ELSE IF val > 1 /\ val < 6 THEN
        IF val = 2 THEN "j"
        ELSE IF val = 3 THEN "pb"
        ELSE IF val = 4 THEN "bread"
        ELSE "cube"
    ELSE "null"

MeshInd(x, y) == x * BoardSize + y

MeshesOf(b) ==
    [ind \in 0 .. (BoardSize * BoardSize - 1) |->
        MeshOf(b[<< ind \div BoardSize, ind % BoardSize >>])]

\* Game::draw: the indices of board_meshes it dereferences, those of the
\* cells board[y][x] holding 1 to 5.
DrawReads(b) ==
    { y * BoardSize + x : <<y, x>> \in { c \in Cells : b[c] \in 1 .. 5 } }

\* Game::initBoard: the program state (board, chef, board_meshes) it leaves;
\* win is not touched by it.
initBoard(w, rands) ==
    LET b == spawnFood(ClearedBoard, fillIn, rands).board
    IN  [board |-> b, chef |-> [x |-> 2, y |-> 2], win |-> w,
         board_meshes |-> MeshesOf(b)]

----------------------------------------------------------------------------
(* Game::getFood *)

NoGetFood == [called |-> FALSE, x |-> 0, y |-> 0, item |-> 0, branch |-> "none"]

\* The square getFood(dir) looks at: x, y of its four branches.
Target(c, dir) ==
    IF dir = 0 THEN << c.x - 1, c.y >>
    ELSE IF dir = 1 THEN << c.x + 1, c.y >>
    ELSE IF dir = 2 THEN << c.x, c.y - 1 >>
    ELSE << c.x, c.y + 1 >>

\* "non empty and non illegal"
IsItemUpToSide(item) == item > 1 /\ item < 7

IsItem(item) == item > 1 /\ item < 6

\* The round is won when all three flags are set.
RoundWonWithoutBread(w) == w.PB = 1 /\ w.J = 1

RoundWon(w) == w.PB = 1 /\ w.J = 1 /\ w.bread = 1

\* "set everything to zero for second and onward rounds"
ResetWinKeepsBread(w) == [w EXCEPT !.PB = 0, !.J = 0]

ResetWin(w) == [w EXCEPT !.PB = 0, !.J = 0, !.bread = 0]

\* The flag set when item is picked up.
Collect(w, item) ==
    IF item = 3 THEN [w EXCEPT !.PB = 1]
    ELSE IF item = 2 THEN [w EXCEPT !.J = 1]
    ELSE [w EXCEPT !.bread = 1]

\* "update the board": the square an item was picked up from.
PickedUpLeavesItem(b, t) == b

PickedUp(b, t) == [b EXCEPT ![t] = SIDE]

\* Game::getFood(dir) on program state s: the set of states it can leave,
\* one per outcome of the rand() calls when the round is won.
getFood(s, dir) ==
    LET t == Target(s.chef, dir)
        item == s.board[t]
        locals == [called |-> TRUE, x |-> t[1], y |-> t[2], item |-> item,
                   branch |-> "none"]
    IN  IF IsItem(item) THEN
            IF item = 5 THEN
                IF RoundWon(s.win) THEN
                    { [st |-> initBoard(ResetWin(s.win), rands),
                       gf |-> [locals EXCEPT !.branch = "won"]] :
                         rands \in RandTuples }
                ELSE { [st |-> s, gf |-> [locals EXCEPT !.branch = "goal"]] }
            ELSE
                { [st |-> [s EXCEPT !.win = Collect(s.win, item),
                                    !.board = PickedUp(s.board, t),
                                    !.board_meshes[MeshInd(t[1], t[2])] = "null"],
                   gf |-> [locals EXCEPT !.branch = "pickup"]] }
        ELSE { [st |-> s, gf |-> [locals EXCEPT !.branch = "nothing"]] }

----------------------------------------------------------------------------
(* Game::handle_event *)

Scancodes == {"UP", "DOWN", "LEFT", "RIGHT", "SPACE"}
Arrows == {"UP", "DOWN", "LEFT", "RIGHT"}

\* The events of the model: key presses, automatic repeats and key releases
\* (a release is never a repeat).
Events ==
    { e \in [type : {"KEYDOWN", "KEYUP"}, repeat : {0, 1}, scancode : Scancodes] :
        e.type = "KEYUP" => e.repeat = 0 }

NoEvent == [type |-> "NONE", repeat |-> 0, scancode |-> "NONE"]

\* "call getFood": the chef stands at the edge the arrow points to.
AtEdgeAlways(sc, c) == TRUE

AtEdgeOneEarly(sc, c) ==
    IF sc = "UP" THEN c.x = 2
    ELSE IF sc = "DOWN" THEN c.x = 2
    ELSE IF sc = "LEFT" THEN c.y = 2
    ELSE c.y = 2

AtEdge(sc, c) ==
    IF sc = "UP" THEN c.x = 3
    ELSE IF sc = "DOWN" THEN c.x = 1
    ELSE IF sc = "LEFT" THEN c.y = 1
    ELSE c.y = 3

\* The dir handed to getFood for each arrow.
GetFoodDirUpDownSwapped(sc) ==
    IF sc = "UP" THEN 0
    ELSE IF sc = "DOWN" THEN 1
    ELSE IF sc = "LEFT" THEN 2
    ELSE 3

GetFoodDir(sc) ==
    IF sc = "UP" THEN 1
    ELSE IF sc = "DOWN" THEN 0
    ELSE IF sc = "LEFT" THEN 2
    ELSE 3

\* "move chef one row/col": the guard of the move.
CanStepOffBoard(sc, c) ==
    IF sc = "UP" THEN c.x < 4
    ELSE IF sc = "DOWN" THEN c.x > 0
    ELSE IF sc = "LEFT" THEN c.y > 0
    ELSE c.y < 4

CanStep(sc, c) ==
    IF sc = "UP" THEN c.x < 3
    ELSE IF sc = "DOWN" THEN c.x > 1
    ELSE IF sc = "LEFT" THEN c.y > 1
    ELSE c.y < 3

\* chef.x += 1, chef.x -= 1, chef.y -= 1, chef.y += 1
Step(sc, c) ==
    IF sc = "UP" THEN [c EXCEPT !.x = c.x + 1]
    ELSE IF sc = "DOWN" THEN [c EXCEPT !.x = c.x - 1]
    ELSE IF sc = "LEFT" THEN [c EXCEPT !.y = c.y - 1]
    ELSE [c EXCEPT !.y = c.y + 1]

\* The board after the chef went from square old to square new.
MoveOnBoardKeepsOld(b, old, new) == [b EXCEPT ![new] = CHEF]

MoveOnBoardForgetsNew(b, old, new) == [b EXCEPT ![old] = EMPTY]

MoveOnBoard(b, old, new) == [b EXCEPT ![old] = EMPTY, ![new] = CHEF]

\* The body of "move chef one row/col" on program state s.
MoveChef(s, sc) ==
    LET old == s.chef
        new == Step(sc, s.chef)
    IN  [s EXCEPT !.board = MoveOnBoard(s.board, << old.x, old.y >>, << new.x, new.y >>),
                  !.board_meshes = [s.board_meshes EXCEPT
                                        ![MeshInd(old.x, old.y)] = "null",
                                        ![MeshInd(new.x, new.y)] = "doll"],
                  !.chef = new]

\* What an arrow branch returns, given the program state before and after it.
HandledIfChanged(before, after) == before # after

Handled(before, after) == TRUE

\* One arrow branch of handle_event: getFood when at the edge, then the
\* move when its guard holds (tested on the chef getFood left), return true.
ArrowBranch(s, sc) ==
    LET afterFood ==
            IF AtEdge(sc, s.chef) THEN getFood(s, GetFoodDir(sc))
            ELSE { [st |-> s, gf |-> NoGetFood] }
        afterMove(o) == IF CanStep(sc, o.st.chef) THEN MoveChef(o.st, sc) ELSE o.st
    IN  { [st |-> afterMove(o), gf |-> o.gf, ret |-> Handled(s, afterMove(o))] :
            o \in afterFood }

\* Game::handle_event(evt) on program state s: the set of outcomes.
handle_event(s, e) ==
    IF e.type = "KEYDOWN" /\ e.repeat # 0 THEN
        { [st |-> s, gf |-> NoGetFood, ret |-> FALSE] }
    ELSE IF e.type = "KEYDOWN" /\ e.repeat = 0 /\ e.scancode \in Arrows THEN
        ArrowBranch(s, e.scancode)
    ELSE { [st |-> s, gf |-> NoGetFood, ret |-> FALSE] }

----------------------------------------------------------------------------
(* The game: construction, then one handle_event per event *)

State == [board |-> board, chef |-> chef, win |-> win, board_meshes |-> board_meshes]

\* The flags of a game that was just constructed.
InitialWin == [PB |-> 0, J |-> 0, bread |-> 0]

\* The squares emptied in the current round, after a getFood that took branch.
Picked(p, g) ==
    IF g.branch = "won" THEN {}
    ELSE IF g.branch = "pickup" THEN p \union { << g.x, g.y >> }
    ELSE p

\* Game::Game: initBoard sets up the first round.
Init ==
    /\ \E rands \in RandTuples :
         LET s == initBoard(InitialWin, rands)
         IN  /\ board = s.board
             /\ chef = s.chef
             /\ win = s.win
             /\ board_meshes = s.board_meshes
    /\ evt = NoEvent
    /\ ret = FALSE
    /\ gf = NoGetFood
    /\ counterSpace = fillIn
    /\ spawned = "done"
    /\ picked = {}

Handle(e) ==
    /\ \E o \in handle_event(State, e) :
         /\ board' = o.st.board
         /\ chef' = o.st.chef
         /\ win' = o.st.win
         /\ board_meshes' = o.st.board_meshes
         /\ gf' = o.gf
         /\ ret' = o.ret
         /\ picked' = Picked(picked, o.gf)
    /\ evt' = e
    /\ UNCHANGED <<counterSpace, spawned>>

PressUp == Handle([type |-> "KEYDOWN", repeat |-> 0, scancode |-> "UP"])
PressDown == Handle([type |-> "KEYDOWN", repeat |-> 0, scancode |-> "DOWN"])
PressLeft == Handle([type |-> "KEYDOWN", repeat |-> 0, scancode |-> "LEFT"])
PressRight == Handle([type |-> "KEYDOWN", repeat |-> 0, scancode |-> "RIGHT"])
KeyRepeat == \E sc \in Scancodes : Handle([type |-> "KEYDOWN", repeat |-> 1, scancode |-> sc])
OtherEvent ==
    \E e \in Events :
        /\ ~(e.type = "KEYDOWN" /\ (e.repeat = 1 \/ e.scancode \in Arrows))
        /\ Handle(e)

Next == PressUp \/ PressDown \/ PressLeft \/ PressRight \/ KeyRepeat \/ OtherEvent

Spec == Init /\ [][Next]_vars

----------------------------------------------------------------------------
(* Game::spawnFood on its own, on the cleared board, for every draw *)

\* The vectors handed to it: fillIn cut after its first n squares.
SpawnInputs == { SubSeq(fillIn, 1, n) : n \in 0 .. Len(fillIn) }

\* Here rand() returns any value of 0 .. RandMax.
AllRandTuples == [1 .. 4 -> 0 .. RandMax]

\* What a build can do at rand() % 0: trap (SIGFPE), or carry on with an
\* undefined index into the emptied vector.
DivideByZeroOutcomes == {"SIGFPE", "undefined"}

SpawnInit ==
    /\ counterSpace \in SpawnInputs
    /\ spawned = "pending"
    /\ board = ClearedBoard
    /\ chef = [x |-> 2, y |-> 2]
    /\ win = InitialWin
    /\ board_meshes = MeshesOf(ClearedBoard)
    /\ evt = NoEvent
    /\ ret = FALSE
    /\ gf = NoGetFood
    /\ picked = {}

\* One call spawnFood(counterSpace) on the cleared board.
SpawnCall ==
    /\ spawned = "pending"
    /\ \E rands \in AllRandTuples :
         LET r == spawnFood(board, counterSpace, rands)
         IN  /\ board' = r.board
             /\ IF r.ub THEN spawned' \in DivideByZeroOutcomes
                ELSE spawned' = "done"
    /\ UNCHANGED <<chef, win, board_meshes, evt, ret, gf, counterSpace, picked>>

SpawnNext == SpawnCall

SpawnSpec == SpawnInit /\ [][SpawnNext]_vars

----------------------------------------------------------------------------
(* Vocabulary of the properties *)

CellsHolding(b, code) == { c \in Cells : b[c] = code }

\* The twelve perimeter candidate cells.
CandidateCells ==
    { <<0, 1>>, <<0, 2>>, <<0, 3>>, <<1, 0>>, <<2, 0>>, <<3, 0>>,
      <<4, 1>>, <<4, 2>>, <<4, 3>>, <<1, 4>>, <<2, 4>>, <<3, 4>> }

\* Exactly one PeanutButter, Jelly, Bread and Goal, each on a candidate cell
\* (a cell holds one code, so the four cells are pairwise distinct).
ItemsPlaced(b) ==
    \A code \in {PEANUTBUTTER, JELLY, BREAD, GOAL} :
        /\ Cardinality(CellsHolding(b, code)) = 1
        /\ CellsHolding(b, code) \subseteq CandidateCells

AllCollected(w) == w.PB = 1 /\ w.J = 1 /\ w.bread = 1
NoneCollected(w) == w.PB = 0 /\ w.J = 0 /\ w.bread = 0

\* This step is a directional command whose boundary interaction read a cell
\* holding code.
InteractsWith(code) == gf'.called /\ gf'.item = code

\* This step is a directional command that wins the round.
WinningCommand == InteractsWith(GOAL) /\ AllCollected(win)

\* This step clears a flag or puts an item on a cell: a round reset.
RoundReset ==
    \/ win.PB = 1 /\ win'.PB = 0
    \/ win.J = 1 /\ win'.J = 0
    \/ win.bread = 1 /\ win'.bread = 0
    \/ \E c \in Cells : board'[c] \in 2 .. 5 /\ board'[c] # board[c]

----------------------------------------------------------------------------
(* C1: in every reachable state exactly one of the 25 cells holds the      *)
(* Character code, also after a command that wins a round and resets the   *)
(* board.                                                                  *)
C1_ExactlyOneCharacter == Cardinality(CellsHolding(board, CHEF)) = 1

\* A round has just been won and reset, and the chef is on the board once.
C1_Witness ==
    /\ gf.branch = "won"
    /\ CellsHolding(board, CHEF) = { << chef.x, chef.y >> }

(* C2: a directional command whose boundary interaction reads a Goal cell  *)
(* while all three flags are set leaves all three flags cleared and the    *)
(* grid with exactly one PeanutButter, Jelly, Bread and Goal on four       *)
(* distinct perimeter candidate cells.                                     *)
C2_WinResetsRound ==
    [][ WinningCommand => (NoneCollected(win') /\ ItemsPlaced(board')) ]_vars

C2_Witness ==
    /\ gf.branch = "won"
    /\ NoneCollected(win)
    /\ ItemsPlaced(board)

(* C3: when a directional command has won the round, the chef's position   *)
(* is (2,2) and cell (2,2) holds Character, for each direction.            *)
C3_ChefAtStartAfterWin ==
    [][ WinningCommand => (chef' = [x |-> 2, y |-> 2] /\ board'[<<2, 2>>] = CHEF) ]_vars

(* C4: a round reset (flags cleared, items re-spawned) happens in a step   *)
(* only if that step's boundary interaction read a Goal cell and all three *)
(* flags were set before it; picking up an ingredient never resets.        *)
C4_ResetOnlyOnWin ==
    [][ RoundReset => (AllCollected(win) /\ InteractsWith(GOAL)) ]_vars

\* A round was won with the Right arrow and the next round is set up.
C4_Witness ==
    /\ gf.branch = "won"
    /\ evt.scancode = "RIGHT"
    /\ NoneCollected(win)
    /\ Cardinality({ c \in Cells : board[c] \in 2 .. 5 }) = 4

(* C5: a directional command issued with the chef on the boundary in that  *)
(* direction never changes the chef's position, whatever the adjacent      *)
(* perimeter cell holds.                                                   *)
C5_EdgeCommandKeepsChef == [][ gf'.called => chef' = chef ]_vars

(* C5 as amended: ... unless the command wins the round (the cell holds    *)
(* Goal and all three flags are set).                                      *)
C5_EdgeCommandKeepsChefUnlessWin ==
    [][ (gf'.called /\ ~WinningCommand) => chef' = chef ]_vars

\* An Up command at the top edge picked up an item; the chef is still there.
C5_Witness ==
    /\ evt.scancode = "UP"
    /\ gf.branch = "pickup"
    /\ chef.x = 3
    /\ gf.x = 4 /\ gf.y = chef.y

(* C6: a boundary interaction on a cell holding PeanutButter, Jelly or     *)
(* Bread sets exactly that ingredient's flag, leaves the other two flags,  *)
(* and makes the cell Empty (0).                                           *)
SetsFlagOf(item) ==
    /\ win'.PB = (IF item = PEANUTBUTTER THEN 1 ELSE win.PB)
    /\ win'.J = (IF item = JELLY THEN 1 ELSE win.J)
    /\ win'.bread = (IF item = BREAD THEN 1 ELSE win.bread)

C6_PickupLeavesEmpty ==
    [][ \A item \in {PEANUTBUTTER, JELLY, BREAD} :
            InteractsWith(item) =>
                (SetsFlagOf(item) /\ board'[<< gf'.x, gf'.y >>] = EMPTY) ]_vars

(* C6 as amended: ... and makes the cell OutOfPlay (6).                    *)
C6_PickupLeavesOutOfPlay ==
    [][ \A item \in {PEANUTBUTTER, JELLY, BREAD} :
            InteractsWith(item) =>
                (SetsFlagOf(item) /\ board'[<< gf'.x, gf'.y >>] = SIDE) ]_vars

\* Jelly was just picked up while PeanutButter and Bread are still out.
C6_Witness ==
    /\ gf.called /\ gf.item = JELLY
    /\ win = [PB |-> 0, J |-> 1, bread |-> 0]
    /\ board[<< gf.x, gf.y >>] = SIDE

(* C7: right after spawnFood on the twelve candidate cells, for every      *)
(* outcome of the draws, the grid holds exactly one PeanutButter, Jelly,   *)
(* Bread and Goal on four distinct candidate cells.                        *)
C7_SpawnPlacesFourItems ==
    (spawned = "done" /\ counterSpace = fillIn) => ItemsPlaced(board)

\* The draws 11, 10, 9, 8 of the twelve-cell spawn: the last four cells.
C7_Witness ==
    /\ spawned = "done" /\ counterSpace = fillIn
    /\ board[<<3, 4>>] = PEANUTBUTTER /\ board[<<2, 4>>] = JELLY
    /\ board[<<1, 4>>] = BREAD /\ board[<<4, 3>>] = GOAL

(* C8: in every reachable state the chef's position (x, y) satisfies       *)
(* 1 <= x <= 3 and 1 <= y <= 3.                                            *)
C8_ChefInInterior == chef.x \in 1 .. 3 /\ chef.y \in 1 .. 3

\* The chef in a corner of the interior, having just tried to leave it.
C8_Witness ==
    /\ chef = [x |-> 3, y |-> 3]
    /\ gf.called /\ evt.scancode = "RIGHT"

(* C9: a directional command whose boundary interaction reads Empty,       *)
(* OutOfPlay, or Goal with a flag still unset, changes no grid cell, not   *)
(* the chef's position and none of the flags.                              *)
C9_NoEffectInteraction ==
    [][ (\/ InteractsWith(EMPTY)
         \/ InteractsWith(SIDE)
         \/ (InteractsWith(GOAL) /\ ~AllCollected(win)))
        => (board' = board /\ chef' = chef /\ win' = win) ]_vars

\* The Goal was tried with two of the three ingredients.
C9_Witness ==
    /\ gf.called /\ gf.item = GOAL
    /\ board[<< gf.x, gf.y >>] = GOAL
    /\ win.PB + win.J + win.bread = 2

(* C10: spawnFood called with fewer than 4 candidate cells ends in the     *)
(* error outcome InsufficientSpawnCells, placing no item and drawing       *)
(* nothing from an empty pool.                                             *)
C10_TooFewCellsIsAnError ==
    (spawned # "pending" /\ Len(counterSpace) < 4) =>
        (spawned = "InsufficientSpawnCells" /\ board = ClearedBoard)

----------------------------------------------------------------------------
(* Vocabulary of the properties about single commands *)

\* This step handles a non-repeat press of an arrow key.
ArrowPress ==
    evt'.type = "KEYDOWN" /\ evt'.repeat = 0 /\ evt'.scancode \in Arrows

\* This step changes the grid, the chef's position or a flag.
StateChanged == board' # board \/ chef' # chef \/ win' # win

(* C11: the result of a directional command is true if and only if the     *)
(* command changed the grid, the chef's position or the flags; a boundary  *)
(* command that changes nothing returns false.                             *)
C11_ReturnsWhetherChanged == [][ ArrowPress => (ret' = StateChanged) ]_vars

(* C11 as amended: the result of a directional command is true whether or  *)
(* not it changed the state; every other event returns false.              *)
C11_ReturnsWhetherArrowPress == [][ ret' = ArrowPress ]_vars

\* An Up press at the top edge found nothing to pick up and returned true.
C11_Witness ==
    /\ evt = [type |-> "KEYDOWN", repeat |-> 0, scancode |-> "UP"]
    /\ gf.branch = "nothing"
    /\ ret = TRUE

(* C12: from the board with PeanutButter at (0,1), Jelly at (0,2), Bread   *)
(* at (0,3), Goal at (1,0) and the chef at (2,2), the first Left command   *)
(* moves the chef to (1,2); the second Left command does not move it,      *)
(* interacts with cell (0,2), collects Jelly and leaves the chef at (1,2). *)
ScenarioBoard ==
    [c \in Cells |->
        IF c = <<0, 1>> THEN PEANUTBUTTER
        ELSE IF c = <<0, 2>> THEN JELLY
        ELSE IF c = <<0, 3>> THEN BREAD
        ELSE IF c = <<1, 0>> THEN GOAL
        ELSE ClearedBoard[c]]

ScenarioStart ==
    /\ board = ScenarioBoard
    /\ chef = [x |-> 2, y |-> 2]
    /\ NoneCollected(win)

ScenarioAfterFirst ==
    /\ board = [c \in Cells |->
                 IF c = <<2, 2>> THEN EMPTY
                 ELSE IF c = <<1, 2>> THEN CHEF
                 ELSE ScenarioBoard[c]]
    /\ chef = [x |-> 1, y |-> 2]
    /\ NoneCollected(win)

\* This step handles a non-repeat press of the arrow key sc.
Press(sc) == ArrowPress /\ evt'.scancode = sc

\* The scenario, played with the arrow key sc.
ScenarioWith(sc) ==
    /\ (ScenarioStart /\ Press(sc)) => chef' = [x |-> 1, y |-> 2]
    /\ (ScenarioAfterFirst /\ Press(sc)) =>
          /\ chef' = [x |-> 1, y |-> 2]
          /\ gf'.called /\ gf'.x = 0 /\ gf'.y = 2
          /\ win' = [PB |-> 0, J |-> 1, bread |-> 0]

C12_LeftTwiceCollectsJelly == [][ ScenarioWith("LEFT") ]_vars

(* C12 as amended: the same with the Down command in place of Left (Left   *)
(* changes y: it moves the chef to (2,1) and then interacts with (2,0)).   *)
C12_DownTwiceCollectsJelly == [][ ScenarioWith("DOWN") ]_vars

\* The scenario after the second Down command.
C12_Witness ==
    /\ board = [c \in Cells |->
                 IF c = <<2, 2>> THEN EMPTY
                 ELSE IF c = <<1, 2>> THEN CHEF
                 ELSE IF c = <<0, 2>> THEN SIDE
                 ELSE ScenarioBoard[c]]
    /\ chef = [x |-> 1, y |-> 2]
    /\ win = [PB |-> 0, J |-> 1, bread |-> 0]
    /\ evt.scancode = "DOWN"
    /\ gf.called /\ gf.x = 0 /\ gf.y = 2 /\ gf.item = JELLY

(* C13: a directional command whose one-cell step stays inside the         *)
(* interior moves the chef by exactly one in exactly one coordinate, makes *)
(* the vacated cell Empty and the entered cell Character, leaves the other *)
(* 23 cells and the three flags unchanged, and makes no pickup or win      *)
(* check.                                                                  *)
Interior == { c \in Cells : c[1] \in 1 .. 3 /\ c[2] \in 1 .. 3 }

Pos(c) == << c.x, c.y >>

Abs(n) == IF n < 0 THEN -n ELSE n

\* The step of this command stays inside the interior.
StepStaysInside == ArrowPress /\ Pos(Step(evt'.scancode, chef)) \in Interior

C13_InteriorMove ==
    [][ StepStaysInside =>
          /\ Abs(chef'.x - chef.x) + Abs(chef'.y - chef.y) = 1
          /\ board'[Pos(chef)] = EMPTY
          /\ board'[Pos(chef')] = CHEF
          /\ \A c \in Cells \ {Pos(chef), Pos(chef')} : board'[c] = board[c]
          /\ win' = win
          /\ ~gf'.called ]_vars

\* A Right command moved the chef from (3,2) to (3,3), with Jelly collected before.
C13_Witness ==
    /\ evt = [type |-> "KEYDOWN", repeat |-> 0, scancode |-> "RIGHT"]
    /\ ~gf.called
    /\ chef = [x |-> 3, y |-> 3]
    /\ board[<<3, 2>>] = EMPTY /\ board[<<3, 3>>] = CHEF
    /\ win.J = 1

(* C14: within one round, once an ingredient was collected from a         *)
(* perimeter cell, any further boundary interaction on that cell changes   *)
(* nothing: the same boundary command issued twice leaves the state the    *)
(* first one left.                                                         *)
C14_SecondInteractionNoEffect ==
    [][ (gf'.called /\ << gf'.x, gf'.y >> \in picked) =>
            (board' = board /\ chef' = chef /\ win' = win) ]_vars

\* The Down command that picked up the item of the cell was issued again.
C14_Witness ==
    /\ evt.scancode = "DOWN"
    /\ gf.called /\ gf.branch = "nothing"
    /\ << gf.x, gf.y >> \in picked
    /\ gf.item = SIDE

(* C15: in every reachable state the mesh assigned to a cell is non-null   *)
(* exactly when the cell holds Character, Jelly, PeanutButter, Bread or    *)
(* Goal, and it is the mesh of that code; so the draw pass, which          *)
(* dereferences the mesh of every cell holding 1..5, never reads null.     *)
VisualCategory(code) ==
    IF code = CHEF THEN "doll"
    ELSE IF code = JELLY THEN "j"
    ELSE IF code = PEANUTBUTTER THEN "pb"
    ELSE IF code = BREAD THEN "bread"
    ELSE IF code = GOAL THEN "cube"
    ELSE "null"

C15_MeshesAgreeWithBoard ==
    /\ \A c \in Cells : board_meshes[MeshInd(c[1], c[2])] = VisualCategory(board[c])
    /\ \A ind \in DrawReads(board) : board_meshes[ind] # "null"

\* After a win and its move: the new round's meshes, the doll beside (2,2).
C15_Witness ==
    /\ gf.branch = "won"
    /\ board_meshes[MeshInd(2, 2)] = "null"
    /\ board_meshes[MeshInd(chef.x, chef.y)] = "doll"
    /\ Cardinality({ ind \in DOMAIN board_meshes : board_meshes[ind] # "null" }) = 5

(* C16: every cell a directional command reads or writes has both          *)
(* coordinates in [0,5), and the cell examined by the boundary interaction *)
(* is one of the 12 perimeter candidate cells.                             *)
C16_CellsInBounds ==
    [][ ArrowPress =>
          /\ gf'.called => << gf'.x, gf'.y >> \in CandidateCells
          /\ chef' # chef => (Pos(chef) \in Cells /\ Pos(chef') \in Cells) ]_vars

\* A Left command examined the candidate cell (3,0).
C16_Witness ==
    /\ evt.scancode = "LEFT"
    /\ gf.called /\ gf.x = 3 /\ gf.y = 0
    /\ chef = [x |-> 3, y |-> 1]

(* C17: an automatic key repeat causes no move and no interaction, leaves  *)
(* grid, chef and flags unchanged and is reported as not handled; each     *)
(* non-repeat arrow press results in exactly one move-or-interact step:    *)
(* either one interaction, the chef staying where the interaction leaves   *)
(* it, or one move of one cell.                                            *)
RepeatEvent == evt'.type = "KEYDOWN" /\ evt'.repeat # 0

\* Where a boundary interaction alone leaves the chef.
ChefAfterInteraction ==
    IF WinningCommand THEN [x |-> 2, y |-> 2] ELSE chef

C17_RepeatIgnoredOneStepPerPress ==
    [][ /\ RepeatEvent =>
              /\ board' = board /\ chef' = chef /\ win' = win
              /\ board_meshes' = board_meshes
              /\ ~gf'.called
              /\ ret' = FALSE
        /\ ArrowPress =>
              IF gf'.called THEN chef' = ChefAfterInteraction
              ELSE Abs(chef'.x - chef.x) + Abs(chef'.y - chef.y) = 1 ]_vars

(* C18: in every reachable state, for each ingredient, either its flag is  *)
(* set and no cell holds its code, or its flag is clear and exactly one    *)
(* cell holds its code; and exactly one cell holds Goal.                   *)
FlagMatchesBoard(flag, code) ==
    \/ flag = 1 /\ CellsHolding(board, code) = {}
    \/ flag = 0 /\ Cardinality(CellsHolding(board, code)) = 1

C18_FlagsMatchBoard ==
    /\ FlagMatchesBoard(win.PB, PEANUTBUTTER)
    /\ FlagMatchesBoard(win.J, JELLY)
    /\ FlagMatchesBoard(win.bread, BREAD)
    /\ Cardinality(CellsHolding(board, GOAL)) = 1

\* Bread was picked up last; PeanutButter and Jelly were collected before.
C18_Witness ==
    /\ gf.branch = "pickup" /\ gf.item = BREAD
    /\ AllCollected(win)
    /\ \A c \in Cells : board[c] \notin {PEANUTBUTTER, JELLY, BREAD}
    /\ Cardinality(picked) = 3

(* C19: in every reachable state the cell at the chef's position holds the *)
(* Character code, also right after a command that wins a round.           *)
C19_ChefCellHoldsCharacter == board[Pos(chef)] = CHEF

\* A round was won with the Down command; the chef is on (1,2).
C19_Witness ==
    /\ gf.branch = "won" /\ evt.scancode = "DOWN"
    /\ chef = [x |-> 1, y |-> 2]
    /\ board[<<1, 2>>] = CHEF

(* C20: from every reachable state there is a finite sequence of arrow     *)
(* commands that collects the ingredients still on the board and then wins *)
(* the round at the Goal cell; no reachable state is a dead end.  The      *)
(* sequence is exhibited: walk to the interior cell next to the wanted     *)
(* boundary cell, press the key towards it, and go on with the next one.   *)
(* In every reachable state the next command of that sequence either wins  *)
(* the round with all three collected, or leads to a state that is nearer  *)
(* to the win by PlanLeft, a natural number; its successor is reachable    *)
(* too, so the sequence wins after at most PlanLeft commands.              *)

\* The code the sequence goes for next.
Wanted(w) ==
    IF w.PB = 0 THEN PEANUTBUTTER
    ELSE IF w.J = 0 THEN JELLY
    ELSE IF w.bread = 0 THEN BREAD
    ELSE GOAL

\* The interior cell next to the boundary cell t.
StandCell(t) ==
    IF t[1] = 0 THEN << 1, t[2] >>
    ELSE IF t[1] = BoardSize - 1 THEN << BoardSize - 2, t[2] >>
    ELSE IF t[2] = 0 THEN << t[1], 1 >>
    ELSE << t[1], BoardSize - 2 >>

\* The arrow key that interacts with the boundary cell t from StandCell(t).
KeyTowards(t) ==
    IF t[1] = 0 THEN "DOWN"
    ELSE IF t[1] = BoardSize - 1 THEN "UP"
    ELSE IF t[2] = 0 THEN "LEFT"
    ELSE "RIGHT"

\* The next key of the sequence when the chef is at c and t is wanted.
PlanKey(c, t) ==
    LET st == StandCell(t)
    IN  IF c.x < st[1] THEN "UP"
        ELSE IF c.x > st[1] THEN "DOWN"
        ELSE IF c.y < st[2] THEN "RIGHT"
        ELSE IF c.y > st[2] THEN "LEFT"
        ELSE KeyTowards(t)

\* The commands one boundary cell takes at most: the moves across the
\* interior and one interaction.
PerCell == 2 * (BoardSize - 3) + 1

\* The longest sequence: the three ingredients and the Goal.
PlanLen == 4 * PerCell

\* What the plan has left in state s: the moves to the stand cell of the
\* wanted cell t, its interaction, and PerCell for every cell wanted after.
PlanLeft(s, t) ==
    (3 - s.win.PB - s.win.J - s.win.bread) * PerCell
    + Abs(s.chef.x - StandCell(t)[1]) + Abs(s.chef.y - StandCell(t)[2]) + 1

\* The outcomes of the plan's next command in state s.
PlanStep(s, t) ==
    handle_event(s, [type |-> "KEYDOWN", repeat |-> 0,
                     scancode |-> PlanKey(s.chef, t)])

\* The cell of the wanted code in state s, if there is one.
WantedCells(s) == CellsHolding(s.board, Wanted(s.win))

\* The sequence, run through handle_event from s, wins within n commands.
RECURSIVE PlanWins(_, _)
PlanWins(s, n) ==
    IF n = 0 \/ WantedCells(s) = {} THEN FALSE
    ELSE LET outs == PlanStep(s, CHOOSE t \in WantedCells(s) : TRUE)
         IN  IF \E o \in outs : o.gf.branch = "won"
             THEN AllCollected(s.win)
             ELSE \E o \in outs : PlanWins(o.st, n - 1)

C20_NoDeadEnd ==
    /\ WantedCells(State) # {}
    /\ LET t == CHOOSE c \in WantedCells(State) : TRUE
       IN  /\ PlanLeft(State, t) \in 1 .. PlanLen
           /\ \E o \in PlanStep(State, t) :
                \/ o.gf.branch = "won" /\ AllCollected(win)
                \/ /\ WantedCells(o.st) # {}
                   /\ PlanLeft(o.st, CHOOSE c \in WantedCells(o.st) : TRUE)
                         < PlanLeft(State, t)

\* Mid-round, Jelly collected, the chef in a corner of the interior: the
\* sequence run from here wins the round.
C20_Witness ==
    /\ win.PB = 0 /\ win.J = 1 /\ win.bread = 0
    /\ chef = [x |-> 3, y |-> 3]
    /\ gf.branch = "pickup"
    /\ PlanWins(State, PlanLen)

====
